---------------------------- MODULE Spec2Model ----------------------------
(***************************************************************************)
(* A model of treedegree/scripts/scrape_ucsb_courses.py: the field         *)
(* extractors that turn one "CourseDisplay" block of a catalog page into a *)
(* course record, and the two-pass driver main() that fetches the pages,   *)
(* parses them and writes the output file.                                 *)
(*                                                                         *)
(* Text is modelled by TLA+ strings, taken apart with Len, SubSeq, Head,   *)
(* Tail and \o.  An HTML element is a record                               *)
(*     [tag, cls, id, text, kids]                                          *)
(* where a text node has tag "#text" and carries its raw text, and an      *)
(* element carries its children in kids.  A course block handle is         *)
(*     [node, parents]                                                     *)
(* the element itself and the id attributes of its ancestors, nearest      *)
(* first (NoId for an ancestor without id).                                *)
(***************************************************************************)
EXTENDS Integers, Sequences, FiniteSets

(***************************************************************************)
(* Characters and the Python string primitives the script uses.            *)
(***************************************************************************)
Uppers == "ABCDEFGHIJKLMNOPQRSTUVWXYZ"

Lowers == "abcdefghijklmnopqrstuvwxyz"

Digits == "0123456789"

Ch(s, i) == SubSeq(s, i, i)

CharsOf(s) == {Ch(s, i) : i \in 1..Len(s)}

UpperSet == CharsOf(Uppers)

LowerSet == CharsOf(Lowers)

DigitSet == CharsOf(Digits)

\* the characters the regex class \s and str.strip() treat as whitespace
SpaceSet == {" ", "\t", "\n", "\r"}

IsSpace(c) == c \in SpaceSet

IsUpper(c) == c \in UpperSet

IsDigit(c) == c \in DigitSet

IsUpperOrDigit(c) == IsUpper(c) \/ IsDigit(c)

LowerMap == [c \in UpperSet |-> Ch(Lowers, CHOOSE i \in 1..26 : Ch(Uppers, i) = c)]

UpperMap == [c \in LowerSet |-> Ch(Uppers, CHOOSE i \in 1..26 : Ch(Lowers, i) = c)]

RECURSIVE concat(_)
\* "".join(parts), by halves
concat(parts) ==
    IF parts = <<>> THEN ""
    ELSE IF Len(parts) = 1 THEN parts[1]
    ELSE LET h == Len(parts) \div 2
         IN  concat(SubSeq(parts, 1, h)) \o concat(SubSeq(parts, h + 1, Len(parts)))

\* str.lower()
lower(s) ==
    concat([i \in 1..Len(s) |->
              IF Ch(s, i) \in UpperSet THEN LowerMap[Ch(s, i)] ELSE Ch(s, i)])

\* str.upper()
upper(s) ==
    concat([i \in 1..Len(s) |->
              IF Ch(s, i) \in LowerSet THEN UpperMap[Ch(s, i)] ELSE Ch(s, i)])

Max(a, b) == IF a >= b THEN a ELSE b

Min(a, b) == IF a <= b THEN a ELSE b

\* s[i:] for a 0-based Python index i
From(s, i) == SubSeq(s, i + 1, Len(s))

\* the length of the longest prefix of s whose characters all satisfy the class
RECURSIVE SpaceRun(_)
SpaceRun(s) == IF s # "" /\ IsSpace(Head(s)) THEN 1 + SpaceRun(Tail(s)) ELSE 0

RECURSIVE UpperRun(_)
UpperRun(s) == IF s # "" /\ IsUpper(Head(s)) THEN 1 + UpperRun(Tail(s)) ELSE 0

RECURSIVE DigitRun(_)
DigitRun(s) == IF s # "" /\ IsDigit(Head(s)) THEN 1 + DigitRun(Tail(s)) ELSE 0

RECURSIVE UpperOrDigitRun(_)
UpperOrDigitRun(s) ==
    IF s # "" /\ IsUpperOrDigit(Head(s)) THEN 1 + UpperOrDigitRun(Tail(s)) ELSE 0

AllSpace(s) == SpaceRun(s) = Len(s)

RECURSIVE SpaceRunBack(_)
\* the length of the longest suffix of s that is whitespace
SpaceRunBack(s) ==
    IF s # "" /\ IsSpace(Ch(s, Len(s)))
    THEN 1 + SpaceRunBack(SubSeq(s, 1, Len(s) - 1)) ELSE 0

\* the 1-based position of the last non-whitespace character of s, 0 if none
LastInk(s) == Len(s) - SpaceRunBack(s)

\* the least and the greatest element of a set of numbers that is not empty
Least(S) == CHOOSE x \in S : \A y \in S : x <= y

Greatest(S) == CHOOSE x \in S : \A y \in S : y <= x

\* str.strip()
strip(s) ==
    IF LastInk(s) = 0 THEN "" ELSE SubSeq(s, SpaceRun(s) + 1, LastInk(s))

RECURSIVE rstrip_colon(_)
\* str.rstrip(":")
rstrip_colon(s) ==
    IF s # "" /\ Ch(s, Len(s)) = ":" THEN rstrip_colon(SubSeq(s, 1, Len(s) - 1)) ELSE s

\* re.sub(r"\s+", " ", s): the first character of a run of whitespace becomes
\* a blank and the others go
sub_spaces(s) ==
    concat([i \in 1..Len(s) |->
              IF ~IsSpace(Ch(s, i)) THEN Ch(s, i)
              ELSE IF i > 1 /\ IsSpace(Ch(s, i - 1)) THEN "" ELSE " "])

norm_space(s) == strip(sub_spaces(s))

\* Python's  sub in s
Contains(s, sub) ==
    \E i \in 0..(Len(s) - Len(sub)) : SubSeq(s, i + 1, i + Len(sub)) = sub

\* the places of the character c in s
Places(s, c) == {i \in 1..Len(s) : Ch(s, i) = c}

RECURSIVE split(_, _)
\* s.split(sep) for a one-character separator: always at least one piece
split(s, sep) ==
    IF Places(s, sep) = {} THEN <<s>>
    ELSE <<SubSeq(s, 1, Least(Places(s, sep)) - 1)>>
         \o split(From(s, Least(Places(s, sep))), sep)

RECURSIVE join(_, _)
\* sep.join(parts)
join(parts, sep) ==
    IF parts = <<>> THEN ""
    ELSE IF Len(parts) = 1 THEN parts[1]
    ELSE parts[1] \o sep \o join(Tail(parts), sep)

(***************************************************************************)
(* The three regular expressions of the header extractor.  Each operator   *)
(* computes what Python's backtracking matcher returns: NoMatch, or the    *)
(* groups of the first match in the matcher's priority order.              *)
(***************************************************************************)
NoMatch == [ok |-> FALSE]

\* Python's None, and a present optional value
Null == [some |-> FALSE]

Some(x) == [some |-> TRUE, v |-> x]

\* a or b
or_else(a, b) == IF a.some THEN a ELSE b

\* [A-Z]{2,10}
SubjectMin == 2

SubjectMax == 10

\* [0-9]{1,3}
NumberDigitsMax == 3

\* [A-Z0-9]{0,6}
NumberSuffixMax == 6

\* ([A-Z]{2,10})\s+([0-9]{1,3}[A-Z0-9]{0,6}) matched at the start of s, in a
\* pattern that goes on with \s*\. or \s*$ .  The character after group 1 must
\* be whitespace and the character after group 2 none of [A-Z0-9], so group 1
\* is the whole run of capitals (u characters) and group 2 the whole run of
\* [A-Z0-9] (r characters, after w of whitespace); the latter splits into 1-3
\* digits and at most 6 more characters iff it starts with a digit and is at
\* most 6 longer than its first min(3, d) digits, d the run of digits.
CodeParts(s, u, w, r, d) ==
    IF /\ u >= SubjectMin
       /\ u <= SubjectMax
       /\ w >= 1
       /\ d >= 1
       /\ r - Min(d, NumberDigitsMax) <= NumberSuffixMax
    THEN [ok |-> TRUE, g1 |-> SubSeq(s, 1, u), g2 |-> SubSeq(s, u + w + 1, u + w + r),
          rest |-> From(s, u + w + r)]
    ELSE NoMatch

CodeAfterSpace(s, u, w) ==
    CodeParts(s, u, w, UpperOrDigitRun(From(s, u + w)), DigitRun(From(s, u + w)))

CodeAfterSubject(s, u) == CodeAfterSpace(s, u, SpaceRun(From(s, u)))

CodeAt(s) == CodeAfterSubject(s, UpperRun(s))

\* \s*\. matched at the start of rest: what follows the period, if there is one
AfterDot(rest) ==
    LET s3 == From(rest, SpaceRun(rest))
    IN  IF s3 # "" /\ Head(s3) = "." THEN Some(Tail(s3)) ELSE Null

\* the groups of a match of the code c and the title t
WithTitle(c, t) ==
    IF t.ok THEN [ok |-> TRUE, g1 |-> c.g1, g2 |-> c.g2, g3 |-> t.g3] ELSE NoMatch

\* \s*(.+?)\s*$ matched at the start of t: the first \s* is greedy and gives
\* back one character at a time (p), the lazy (.+?) grows from one character
\* (q) and cannot cross a newline, and what follows it must be whitespace to
\* the end: with L the place of the last character of t that is no
\* whitespace, q is max(1, L - p), and the first match has the greatest p that
\* has one.  The value is group 3, or NoMatch.
TitleFrom(t, L, ps) ==
    IF ps = {} THEN NoMatch
    ELSE [ok |-> TRUE,
          g3 |-> SubSeq(t, Greatest(ps) + 1, Greatest(ps) + Max(1, L - Greatest(ps)))]

TitleUpTo(t, L) ==
    TitleFrom(t, L,
              {p \in 0..SpaceRun(t) :
                  /\ p + Max(1, L - p) <= Len(t)
                  /\ ~Contains(SubSeq(t, p + 1, p + Max(1, L - p)), "\n")})

HeaderTitle(t) == TitleUpTo(t, LastInk(t))

HeaderAfterDot(c, dot) ==
    IF dot.some THEN WithTitle(c, HeaderTitle(dot.v)) ELSE NoMatch

HeaderAfterCode(c) == IF c.ok THEN HeaderAfterDot(c, AfterDot(c.rest)) ELSE NoMatch

\* COURSE_HEADER_RE.match(txt)
COURSE_HEADER_RE(txt) == HeaderAfterCode(CodeAt(From(txt, SpaceRun(txt))))

CodeOnly(c) ==
    IF c.ok /\ AllSpace(c.rest) THEN [ok |-> TRUE, g1 |-> c.g1, g2 |-> c.g2] ELSE NoMatch

\* COURSE_CODE_ONLY_RE.match(txt)
COURSE_CODE_ONLY_RE(txt) == CodeOnly(CodeAt(From(txt, SpaceRun(txt))))

IsParen(c) == c \in {"(", ")"}

\* the text before the first parenthesis of t
BeforeParen(t) ==
    LET at == {i \in 1..Len(t) : IsParen(Ch(t, i))}
    IN  IF at = {} THEN t ELSE SubSeq(t, 1, Least(at) - 1)

AnyTitleIn(seg, L) ==
    TitleFrom(seg, L, {p \in 0..SpaceRun(seg) : p + Max(1, L - p) <= Len(seg)})

\* \s*([^()]+?)\s*(\(|$) matched at the start of t: as HeaderTitle, but the
\* lazy group may cross a newline and not a parenthesis, and must be followed,
\* after any whitespace, by "(" or the end of the text: so the match lies in
\* the text before the first parenthesis, which must not be a ")".
AnyTitleBefore(t, seg) ==
    IF Len(seg) < Len(t) /\ Ch(t, Len(seg) + 1) = ")" THEN NoMatch
    ELSE AnyTitleIn(seg, LastInk(seg))

AnyTitle(t) == AnyTitleBefore(t, BeforeParen(t))

AnyAfterDot(c, dot) ==
    IF dot.some THEN WithTitle(c, AnyTitle(dot.v)) ELSE NoMatch

AnyAfterCode(c) == IF c.ok THEN AnyAfterDot(c, AfterDot(c.rest)) ELSE NoMatch

\* the pattern of strategy 3 matched at 0-based position i of txt
AnyAt(txt, i) == AnyAfterCode(CodeAt(From(txt, i)))

\* the first match of a list indexed by position
FirstOf(ms, at) == IF at = {} THEN NoMatch ELSE ms[Least(at)]

FirstMatch(ms) == FirstOf(ms, {i \in DOMAIN ms : ms[i].ok})

\* re.search(r"([A-Z]{2,10})\s+([0-9]{1,3}[A-Z0-9]{0,6})\s*\.\s*([^()]+?)\s*(\(|$)", txt):
\* the match at the leftmost position that has one
ANY_HEADER_RE(txt) == FirstMatch([i \in 0..Len(txt) |-> AnyAt(txt, i)])

\* re.match(r"^\(([^)]+)\)\s*(.*)$", txt): group 1 runs to the first ")" and is
\* not empty; (.*) cannot cross a newline, and $ also matches before a final one
OneLine(s) == Places(s, "\n") \subseteq {Len(s)}

\* s without the newline that ends it
Chomp(s) == IF s # "" /\ Ch(s, Len(s)) = "\n" THEN SubSeq(s, 1, Len(s) - 1) ELSE s

UnitsGroups(txt, c, r, ps) ==
    IF ps = {} THEN NoMatch
    ELSE [ok |-> TRUE, g1 |-> SubSeq(txt, 2, c - 1), g2 |-> Chomp(From(r, Greatest(ps)))]

\* \s*(.*)$ matched at the start of r, the text after the ")" at place c
UnitsTail(txt, c, r) ==
    UnitsGroups(txt, c, r, {p \in 0..SpaceRun(r) : OneLine(From(r, p))})

UnitsAfter(txt, c) == IF c < 3 THEN NoMatch ELSE UnitsTail(txt, c, From(txt, c))

UNITS_RE(txt) ==
    IF txt = "" \/ Head(txt) # "(" \/ Places(txt, ")") = {} THEN NoMatch
    ELSE UnitsAfter(txt, Least(Places(txt, ")")))

(***************************************************************************)
(* The parsed document: the part of BeautifulSoup the script relies on.    *)
(***************************************************************************)
\* a NavigableString
Text(s) == [tag |-> "#text", cls |-> "", id |-> Null, text |-> s, kids |-> <<>>]

\* a Tag: its name, class attribute, id attribute and children
El(t, c, i, ks) == [tag |-> t, cls |-> c, id |-> i, text |-> "", kids |-> ks]

IsTag(n) == n.tag # "#text"

RECURSIVE walk(_)
\* the nodes below a list of siblings, in document order
walk(ks) ==
    IF ks = <<>> THEN <<>>
    ELSE <<Head(ks)>> \o walk(Head(ks).kids) \o walk(Tail(ks))

\* Tag.descendants
descendants(n) == walk(n.kids)

\* Tag.find_all(name)
find_all(n, name) ==
    LET hit(d) == d.tag = name
    IN  SelectSeq(descendants(n), hit)

\* Tag.find(name)
find(n, name) ==
    LET all == find_all(n, name)
    IN  IF all = <<>> THEN Null ELSE Some(all[1])

\* Tag.select_one("name.cls")
select_one(n, name, c) ==
    LET hit(d) == d.tag = name /\ d.cls = c
        all    == SelectSeq(descendants(n), hit)
    IN  IF all = <<>> THEN Null ELSE Some(all[1])

EndsWith(s, suffix) ==
    Len(s) >= Len(suffix) /\ SubSeq(s, Len(s) - Len(suffix) + 1, Len(s)) = suffix

\* Tag.select_one("name[id$='suffix']")
select_one_id_suffix(n, name, suffix) ==
    LET hit(d) == d.tag = name /\ d.id.some /\ EndsWith(d.id.v, suffix)
        all    == SelectSeq(descendants(n), hit)
    IN  IF all = <<>> THEN Null ELSE Some(all[1])

RECURSIVE stripped(_)
\* the stripped, non-empty strings of a list of nodes, in order
stripped(ns) ==
    IF ns = <<>> THEN <<>>
    ELSE (IF ~IsTag(Head(ns)) /\ strip(Head(ns).text) # ""
          THEN <<strip(Head(ns).text)>> ELSE <<>>) \o stripped(Tail(ns))

\* Tag.get_text(" ", strip=True)
get_text(n) == join(stripped(descendants(n)), " ")

RECURSIVE sites(_)
\* every <strong> below a list of siblings, in document order, each with its
\* next_siblings
sites(ks) ==
    IF ks = <<>> THEN <<>>
    ELSE (IF Head(ks).tag = "strong"
          THEN <<[el |-> Head(ks), next_siblings |-> Tail(ks)]>> ELSE <<>>)
         \o sites(Head(ks).kids) \o sites(Tail(ks))

(***************************************************************************)
(* find_level_group                                                        *)
(***************************************************************************)
\* the three tests of one ancestor's lower-cased id
level_of(pid) ==
    IF Contains(pid, "rptrlowerdivisioncourses") THEN Some("Lower Division")
    ELSE IF Contains(pid, "rptrupperdivisioncourses") THEN Some("Upper Division")
    ELSE IF Contains(pid, "rptrgraduatedivisioncourses") THEN Some("Graduate Division")
    ELSE Null

\* (parent.get("id") or "").lower()
pid_of(id) == lower(IF id.some THEN id.v ELSE "")

RECURSIVE level_walk_outermost(_)
\* the walk taken from the outermost ancestor inward
level_walk_outermost(parents) ==
    IF parents = <<>> THEN Null
    ELSE or_else(level_walk_outermost(Tail(parents)), level_of(pid_of(Head(parents))))

RECURSIVE level_walk(_)
\* the loop over course_div.parents (every parent is a Tag)
level_walk(parents) ==
    IF parents = <<>> THEN Null
    ELSE or_else(level_of(pid_of(Head(parents))), level_walk(Tail(parents)))

find_level_group(course_div) == level_walk(course_div.parents)

(***************************************************************************)
(* parse_units_and_instructors                                             *)
(***************************************************************************)
\* [norm_space(x) for x in pieces if norm_space(x)]
RECURSIVE kept(_)
kept(pieces) ==
    IF pieces = <<>> THEN <<>>
    ELSE (IF norm_space(Head(pieces)) # "" THEN <<norm_space(Head(pieces))>> ELSE <<>>)
         \o kept(Tail(pieces))

\* STAFF recognised in upper case only
instructors_of_exact_staff(instructors_txt) ==
    IF instructors_txt = "" THEN <<>>
    ELSE IF instructors_txt = "STAFF" THEN <<"STAFF">>
    ELSE kept(split(instructors_txt, ";"))

instructors_of(instructors_txt) ==
    IF instructors_txt = "" THEN <<>>
    ELSE IF upper(instructors_txt) = "STAFF" THEN <<"STAFF">>
    ELSE kept(split(instructors_txt, ";"))

\* the result for the text txt of the span and the match m of the units pattern
units_and_instructors(txt, m) ==
    IF m.ok
    THEN [units |-> Some(norm_space(m.g1)), instructors |-> instructors_of(norm_space(m.g2))]
    ELSE [units |-> Null, instructors |-> instructors_of(txt)]

units_of_text(txt) == units_and_instructors(txt, UNITS_RE(txt))

units_of_span(span) ==
    IF ~span.some THEN [units |-> Null, instructors |-> <<>>]
    ELSE units_of_text(norm_space(get_text(span.v)))

parse_units_and_instructors(course_div) ==
    units_of_span(select_one(course_div.node, "span", "InstructorUnits"))

(***************************************************************************)
(* extract_labeled_fields                                                  *)
(***************************************************************************)
\* the dictionary wanted: label -> canonical field
wanted ==
    [label \in {"prerequisite", "prerequisites", "recommended preparation",
                "enrollment comments", "repeat comments", "cross-listed",
                "crosslisted"} |->
        CASE label \in {"prerequisite", "prerequisites"} -> "prerequisites_raw"
          [] label = "recommended preparation" -> "recommended_preparation_raw"
          [] label = "enrollment comments" -> "enrollment_comments_raw"
          [] label = "repeat comments" -> "repeat_comments_raw"
          [] label \in {"cross-listed", "crosslisted"} -> "cross_listed_raw"]

LabeledFields ==
    {"prerequisites_raw", "recommended_preparation_raw", "enrollment_comments_raw",
     "repeat_comments_raw", "cross_listed_raw"}

\* the dictionary out as first built: every field None
no_fields == [f \in LabeledFields |-> Null]

RECURSIVE parts_of_through_br(_)
\* the inner loop without its stop at <br>
parts_of_through_br(sibs) ==
    IF sibs = <<>> THEN <<>>
    ELSE LET sib == Head(sibs)
         IN  IF IsTag(sib)
             THEN IF sib.tag = "strong" THEN <<>>
                  ELSE <<norm_space(get_text(sib))>> \o parts_of_through_br(Tail(sibs))
             ELSE <<norm_space(sib.text)>> \o parts_of_through_br(Tail(sibs))

RECURSIVE parts_of(_)
\* the inner loop over strong.next_siblings: one part per sibling, up to the
\* first <strong> or <br>
parts_of(sibs) ==
    IF sibs = <<>> THEN <<>>
    ELSE LET sib == Head(sibs)
         IN  IF IsTag(sib)
             THEN IF sib.tag = "strong" \/ sib.tag = "br" THEN <<>>
                  ELSE <<norm_space(get_text(sib))>> \o parts_of(Tail(sibs))
             ELSE <<norm_space(sib.text)>> \o parts_of(Tail(sibs))

NonEmpty(p) == p # ""

label_of(strong) == lower(rstrip_colon(norm_space(get_text(strong))))

value_of(sibs) == norm_space(join(SelectSeq(parts_of(sibs), NonEmpty), " "))

\* the body of the outer loop for one <strong>: out afterwards
labeled_step(out, label, val) ==
    IF label \notin DOMAIN wanted THEN out
    ELSE IF val # "" THEN [out EXCEPT ![wanted[label]] = Some(val)]
    ELSE out

RECURSIVE labeled_loop(_, _)
\* the outer loop over the <strong> elements
labeled_loop(ss, out) ==
    IF ss = <<>> THEN out
    ELSE labeled_loop(Tail(ss),
                      labeled_step(out, label_of(Head(ss).el),
                                   value_of(Head(ss).next_siblings)))

extract_labeled_fields(course_div) ==
    labeled_loop(sites(course_div.node.kids), no_fields)

(***************************************************************************)
(* extract_course_header                                                   *)
(***************************************************************************)
\* return (m.group(1), m.group(2), norm_space(m.group(3))) if m
header_of(m) == IF m.ok THEN Some(<<m.g1, m.g2, norm_space(m.g3)>>) ELSE Null

\* return (m2.group(1), m2.group(2), title) if m2 and title
code_and_title(m2, title) ==
    IF m2.ok /\ title # "" THEN Some(<<m2.g1, m2.g2, title>>) ELSE Null

\* left, right = txt.split(".", 1), for what stands before the first period
cut_at_period(txt, left) ==
    code_and_title(COURSE_CODE_ONLY_RE(norm_space(left)),
                   norm_space(From(txt, Len(left) + 1)))

\* the fallback of strategy 1
header_by_period(txt) ==
    IF Contains(txt, ".") THEN cut_at_period(txt, split(txt, ".")[1]) ELSE Null

id_title_header(txt) == or_else(header_of(COURSE_HEADER_RE(txt)), header_by_period(txt))

header_of_span(id_title) ==
    IF id_title.some THEN id_title_header(norm_space(get_text(id_title.v))) ELSE Null

\* 1) span.CourseIdAndTitle
header_from_id_title(course_div) ==
    header_of_span(select_one(course_div.node, "span", "CourseIdAndTitle"))

header_of_bold(b) ==
    IF b.some THEN header_of(COURSE_HEADER_RE(norm_space(get_text(b.v)))) ELSE Null

\* 2) the first <b>
header_from_bold(course_div) == header_of_bold(find(course_div.node, "b"))

\* if m_any: ... if title: return (subj, num, title)
\* strategy 3 without its test of the title
header_of_any_untitled(m_any) ==
    IF m_any.ok
    THEN Some(<<m_any.g1, m_any.g2, norm_space(m_any.g3)>>)
    ELSE Null

header_of_any(m_any) ==
    IF m_any.ok /\ norm_space(m_any.g3) # ""
    THEN Some(<<m_any.g1, m_any.g2, norm_space(m_any.g3)>>)
    ELSE Null

\* 3) anywhere in the text of the block
header_from_text(course_div) ==
    header_of_any(ANY_HEADER_RE(norm_space(get_text(course_div.node))))

\* the first <b> consulted before the course-id-and-title element
extract_course_header_bold_first(course_div) ==
    or_else(header_from_bold(course_div),
            or_else(header_from_id_title(course_div), header_from_text(course_div)))

extract_course_header(course_div) ==
    or_else(header_from_id_title(course_div),
            or_else(header_from_bold(course_div), header_from_text(course_div)))

(***************************************************************************)
(* extract_description                                                     *)
(***************************************************************************)
\* the body of the loop without its test of the two labels
best_text_step_unfiltered(best_text, txt) ==
    IF txt = "" THEN best_text
    ELSE IF Len(txt) > Len(best_text) THEN txt
    ELSE best_text

\* the body of the loop for the text txt of one <div>: best_text afterwards
best_text_step(best_text, txt) ==
    IF txt = "" THEN best_text
    ELSE IF Contains(txt, "Prerequisite:") \/ Contains(txt, "Recommended Preparation:")
         THEN best_text
    ELSE IF Len(txt) > Len(best_text) THEN txt
    ELSE best_text

RECURSIVE best_text_loop(_, _)
best_text_loop(divs, best_text) ==
    IF divs = <<>> THEN best_text
    ELSE best_text_loop(Tail(divs),
                        best_text_step(best_text, norm_space(get_text(Head(divs)))))

\* course_div.select_one("div[id$='nonchildcourseContainer']") or course_div
container_of(course_div) ==
    or_else(select_one_id_suffix(course_div.node, "div", "nonchildcourseContainer"),
            Some(course_div.node)).v

extract_description(course_div) ==
    best_text_loop(find_all(container_of(course_div), "div"), "")

(***************************************************************************)
(* parse_course                                                            *)
(***************************************************************************)
\* the dictionary parse_course returns
course_record(header, ui, level_group, labeled, description, source_url) ==
    [subject |-> header[1],
     number |-> header[2],
     code |-> header[1] \o " " \o header[2],
     title |-> header[3],
     units |-> ui.units,
     level_group |-> level_group,
     instructors |-> ui.instructors,
     prerequisites_raw |-> labeled["prerequisites_raw"],
     recommended_preparation_raw |-> labeled["recommended_preparation_raw"],
     enrollment_comments_raw |-> labeled["enrollment_comments_raw"],
     repeat_comments_raw |-> labeled["repeat_comments_raw"],
     cross_listed_raw |-> labeled["cross_listed_raw"],
     description |-> description,
     source_url |-> source_url]

course_of(header, course_div, source_url) ==
    IF ~header.some THEN Null
    ELSE Some(course_record(header.v,
                            parse_units_and_instructors(course_div),
                            find_level_group(course_div),
                            extract_labeled_fields(course_div),
                            extract_description(course_div),
                            source_url))

parse_course(course_div, source_url) ==
    course_of(extract_course_header(course_div), course_div, source_url)

(***************************************************************************)
(* ProgressBar                                                             *)
(***************************************************************************)
\* ProgressBar.__init__ (the width only shapes the line that update draws)
ProgressBar(total) == [total |-> Max(total, 1), current |-> 0]

\* ProgressBar.update: the line it writes, "Parsed: current/total [bar] pct%",
\* is a function of the two fields
update(bar, inc) == [bar EXCEPT !.current = bar.current + inc]

(***************************************************************************)
(* Inputs.  The catalog pages are the environment: a page is the list of   *)
(* blocks soup.select("div.CourseDisplay") finds in it.                    *)
(***************************************************************************)
URLS ==
    <<"https://my.sa.ucsb.edu/catalog/2022-2023/CollegesDepartments/ls-intro/stats.aspx?DeptTab=Courses",
      "https://my.sa.ucsb.edu/catalog/2022-2023/CollegesDepartments/ls-intro/econ.aspx?DeptTab=Courses",
      "https://my.sa.ucsb.edu/catalog/2022-2023/CollegesDepartments/ls-intro/math.aspx?DeptTab=Courses",
      "https://my.sa.ucsb.edu/catalog/2022-2023/CollegesDepartments/coe/compsci-engr.aspx?DeptTab=Courses",
      "https://my.sa.ucsb.edu/catalog/2022-2023/CollegesDepartments/coe/ece.aspx?DeptTab=Courses">>

CourseDisplay(kids) == El("div", "CourseDisplay", Null, kids)

Block(kids, parents) == [node |-> CourseDisplay(kids), parents |-> parents]

Br == El("br", "", Null, <<>>)

Strong(s) == El("strong", "", Null, <<Text(s)>>)

Bold(s) == El("b", "", Null, <<Text(s)>>)

Span(c, s) == El("span", c, Null, <<Text(s)>>)

Div(kids) == El("div", "", Null, kids)

\* a block as the catalog writes it: header span, units span, labelled
\* fields in an <i>, description in an inner <div>
CatalogBlock ==
    Block(<<El("div", "", Some("ctl00_rptrCourses_ctl01_nonchildcourseContainer"),
               <<El("span", "CourseIdAndTitle", Null,
                    <<El("a", "", Null, <<Text(" PSTAT 5A.\n  Understanding Data ")>>)>>),
                 Text(" "),
                 Span("InstructorUnits", "(4-8) Smith, J.; Lee, K."),
                 Br,
                 El("i", "", Null, <<Strong("Prerequisite:"), Text(" Math 3A. ")>>),
                 Div(<<Text("Introduction to data science.")>>)>>)>>,
          <<Null, Some("ctl00_rptrLowerDivisionCourses")>>)

\* a block whose header is found by each of the later strategies, and two
\* that are no course: a code without title, and a heading
BoldBlock ==
    Block(<<Bold("MATH 3A. Calculus"), Text(" with applications")>>,
          <<Some("ctl00_rptrUpperDivisionCourses")>>)

TextBlock == Block(<<Text("CMPSC 16. Problem Solving (4) STAFF")>>, <<Null>>)

UntitledBlock == Block(<<Text("ECE 2A. (4) STAFF")>>, <<Null>>)

HeadingBlock == Block(<<Text("Courses offered irregularly.")>>, <<Null>>)

PageBlocks == {CatalogBlock, BoldBlock, TextBlock, UntitledBlock, HeadingBlock}

\* the most blocks all the pages of one run hold together
MaxBlocks == 2

\* what requests.get(...) / raise_for_status() can raise
FetchErrors == {"HTTPError", "Timeout", "ConnectionError"}

(***************************************************************************)
(* The inputs of the extractors when one of them is entered directly.      *)
(***************************************************************************)
\* the most pieces of an instructor/units text
MaxPieces == 3

\* the most children of a block given to the header extractor
MaxHeaderNodes == 2

\* the most siblings after (and with) the labels of a block
MaxSiblings == 3

\* the most inner <div>s of a block given to the description extractor
MaxDivs == 2

\* the most ancestors of a block
MaxParents == 3

UnitsPieces == {"(4-8)", "(", ")", " \n", ";", "Staff", "Lee, K."}

\* the two texts the specification gives as examples
UnitsExamples == {"(4) STAFF", "(4-8) Smith, J.; Lee, K."}

UnitsBlock(t) ==
    Block(<<Span("CourseIdAndTitle", "XYZ 100. Intro to Things"),
            Span("InstructorUnits", t)>>, <<>>)

NoUnitsBlock == Block(<<Span("CourseIdAndTitle", "XYZ 100. Intro to Things")>>, <<>>)

HeaderTexts ==
    {"XYZ 100. Intro to Things", " MATH \n 3AL .  Calculus  Lab ", "XYZ 100. (4) STAFF",
     "See ECE 2A. Circuits (4) STAFF", "Intro to Things", "XYZ 100.",
     "xyz 100. Intro", "ABCDEFGHIJK 1234ABCDEFG. Too Long"}

HeaderNodes ==
    {Span("CourseIdAndTitle", t) : t \in HeaderTexts}
    \cup {Bold(t) : t \in HeaderTexts}
    \cup {Text(t) : t \in HeaderTexts}

HeaderBlock(ks) == Block(ks, <<>>)

LabeledNodes ==
    {Strong("Prerequisite:"), Strong(" prerequisites "), Strong("Cross-Listed::"),
     Strong("Note:"), Text(" Math  3A. "), Bold("or CS 8"), Br}

LabeledExamples ==
    {<<Strong("Prerequisite:"), Text(" Math  3A. "), Strong(" prerequisites "),
       Bold("or CS 8")>>,
     <<Strong("Prerequisite:"), Text(" Math  3A. "), Bold("or CS 8"), Br,
       Text("Letter grade.")>>}

\* as in the catalog the labels stand in an <i>; what follows the <i> is no
\* sibling of a label
LabeledBlock(ks) ==
    Block(<<Bold("XYZ 100. Intro to Things"), El("i", "", Null, ks),
            Text("Not offered every year.")>>, <<>>)

DescriptionNodes ==
    {Div(<<Text(" Intro  to\n data. ")>>),
     Div(<<Text("A longer text about it.")>>),
     Div(<<Text("Prerequisite: Math 3A. Even longer text.")>>),
     Div(<<Bold("Recommended Preparation:"), Text("CS 8, or the like.")>>),
     Div(<<Strong("Prerequisite"), Text(": consent of instructor.")>>),
     Div(<<Text("About"), Div(<<Text("nested")>>)>>),
     Bold("XYZ 100. Intro to Things")}

\* the <div>s directly in the block, or in its container beside a <div> that
\* is outside of it
DescriptionBlock(ks, contained) ==
    IF contained
    THEN Block(<<Div(<<Text("Outside the container, the longest of all.")>>),
                 El("div", "", Some("ctl00_nonchildcourseContainer"), ks)>>, <<>>)
    ELSE Block(ks, <<>>)

ParentIds ==
    {Null, Some("content"), Some("ctl00_rptrLowerDivisionCourses_ctl01"),
     Some("RPTRUPPERDIVISIONCOURSES"), Some("rptrGraduateDivisionCourses"),
     Some("rptrgraduatedivisioncourses_in_rptrLowerDivisionCourses")}

LevelBlock(ps) == Block(<<Bold("XYZ 100. Intro to Things")>>, ps)

Entry(fn, course_div) == [fn |-> fn, course_div |-> course_div]

\* e is a function the program can be entered at, with its argument
IsEntry(e) ==
    \/ e = Entry("main", CatalogBlock)
    \/ \E k \in 0..MaxPieces : \E ps \in [1..k -> UnitsPieces] :
          e = Entry("parse_units_and_instructors", UnitsBlock(concat(ps)))
    \/ \E t \in UnitsExamples : e = Entry("parse_units_and_instructors", UnitsBlock(t))
    \/ e = Entry("parse_units_and_instructors", NoUnitsBlock)
    \/ \E k \in 0..MaxHeaderNodes : \E ks \in [1..k -> HeaderNodes] :
          \E fn \in {"extract_course_header", "parse_course"} : e = Entry(fn, HeaderBlock(ks))
    \/ \E k \in 0..MaxSiblings : \E ks \in [1..k -> LabeledNodes] :
          e = Entry("extract_labeled_fields", LabeledBlock(ks))
    \/ \E ks \in LabeledExamples : e = Entry("extract_labeled_fields", LabeledBlock(ks))
    \/ \E k \in 0..MaxDivs : \E ks \in [1..k -> DescriptionNodes] : \E c \in BOOLEAN :
          \E fn \in {"extract_description", "parse_course"} :
             e = Entry(fn, DescriptionBlock(ks, c))
    \/ \E k \in 0..MaxParents : \E ps \in [1..k -> ParentIds] :
          e = Entry("find_level_group", LevelBlock(ps))
    \/ \E b \in PageBlocks : e = Entry("parse_course", b)

(***************************************************************************)
(* The state: the function entered and, for main, its local variables, the *)
(* output file, the summary it prints and the requests it has made.        *)
(***************************************************************************)
VARIABLES entry, called, ret, pc, pages, total_est, bar, all_courses, skipped,
          parsed, out_file, summary, requested, raised

vars == <<entry, called, ret, pc, pages, total_est, bar, all_courses, skipped,
          parsed, out_file, summary, requested, raised>>

main_vars == <<pc, pages, total_est, bar, all_courses, skipped, parsed, out_file,
               summary, requested, raised>>

Init ==
    /\ IsEntry(entry)
    /\ called = ""
    /\ ret = Null
    /\ pc = IF entry.fn = "main" THEN "fetch" ELSE "none"
    /\ pages = <<>>
    /\ total_est = 0
    /\ bar = Null
    /\ all_courses = <<>>
    /\ skipped = 0
    /\ parsed = 0
    /\ out_file = Null
    /\ summary = Null
    /\ requested = [i \in 1..Len(URLS) |-> 0]
    /\ raised = Null

(***************************************************************************)
(* An extractor entered directly: the call and its value.                  *)
(***************************************************************************)
Returns(fn, value) ==
    /\ entry.fn = fn
    /\ called = ""
    /\ called' = fn
    /\ ret' = value
    /\ UNCHANGED <<entry, main_vars>>

CallFindLevelGroup == Returns("find_level_group", find_level_group(entry.course_div))

CallParseUnitsAndInstructors ==
    Returns("parse_units_and_instructors", parse_units_and_instructors(entry.course_div))

CallExtractLabeledFields ==
    Returns("extract_labeled_fields", extract_labeled_fields(entry.course_div))

CallExtractCourseHeader ==
    Returns("extract_course_header", extract_course_header(entry.course_div))

CallExtractDescription ==
    Returns("extract_description", extract_description(entry.course_div))

CallParseCourse == Returns("parse_course", parse_course(entry.course_div, URLS[1]))

(***************************************************************************)
(* main                                                                    *)
(***************************************************************************)
\* an estimate that counts every block
count_blocks(blocks) == Len(blocks)

RECURSIVE count_headers(_)
\* the inner loop of the first pass over the blocks of one page
count_headers(blocks) ==
    IF blocks = <<>> THEN 0
    ELSE (IF extract_course_header(Head(blocks)).some THEN 1 ELSE 0)
         + count_headers(Tail(blocks))

RECURSIVE blocks_of(_)
\* the blocks of the pages in the order the second pass visits them, each
\* with the url of its page
blocks_of(ps) ==
    IF ps = <<>> THEN <<>>
    ELSE [i \in 1..Len(Head(ps).html) |->
             [url |-> Head(ps).url, course_div |-> Head(ps).html[i]]]
         \o blocks_of(Tail(ps))

\* the first pass left after its first page
after_first_fetch(ps) == "bar"

\* for url in URLS: the first pass goes on until every url has been fetched
after_fetch(ps) == IF Len(ps) = Len(URLS) THEN "bar" ELSE "fetch"

\* fetch(url) returns: one iteration of the first pass
FetchPage ==
    /\ entry.fn = "main"
    /\ pc = "fetch"
    /\ Len(pages) < Len(URLS)
    /\ \E k \in 0..(MaxBlocks - Len(blocks_of(pages))) : \E html \in [1..k -> PageBlocks] :
          /\ pages' = Append(pages, [url |-> URLS[Len(pages) + 1], html |-> html])
          /\ total_est' = total_est + count_headers(html)
    /\ requested' = [requested EXCEPT ![Len(pages) + 1] = @ + 1]
    /\ pc' = after_fetch(pages')
    /\ UNCHANGED <<entry, called, ret, bar, all_courses, skipped, parsed, out_file,
                   summary, raised>>

\* fetch(url) raises, main swallows the exception and goes on without the page
FetchRaisesAndSkips ==
    /\ entry.fn = "main"
    /\ pc = "fetch"
    /\ Len(pages) < Len(URLS)
    /\ \E e \in FetchErrors : raised' = Some([error |-> e, url |-> URLS[Len(pages) + 1]])
    /\ pages' = Append(pages, [url |-> URLS[Len(pages) + 1], html |-> <<>>])
    /\ requested' = [requested EXCEPT ![Len(pages) + 1] = @ + 1]
    /\ pc' = after_fetch(pages')
    /\ UNCHANGED <<entry, called, ret, total_est, bar, all_courses, skipped,
                   parsed, out_file, summary>>

\* fetch(url) raises: the exception leaves main
FetchRaises ==
    /\ entry.fn = "main"
    /\ pc = "fetch"
    /\ Len(pages) < Len(URLS)
    /\ \E e \in FetchErrors : raised' = Some([error |-> e, url |-> URLS[Len(pages) + 1]])
    /\ requested' = [requested EXCEPT ![Len(pages) + 1] = @ + 1]
    /\ pc' = "raised"
    /\ UNCHANGED <<entry, called, ret, pages, total_est, bar, all_courses, skipped,
                   parsed, out_file, summary>>

\* bar = ProgressBar(total=total_est); all_courses = []; skipped = 0
StartSecondPass ==
    /\ entry.fn = "main"
    /\ pc = "bar"
    /\ bar' = Some(ProgressBar(total_est))
    /\ all_courses' = <<>>
    /\ skipped' = 0
    /\ parsed' = 0
    /\ pc' = "parse"
    /\ UNCHANGED <<entry, called, ret, pages, total_est, out_file, summary, requested,
                   raised>>

\* the body of the second pass without its count of the skipped blocks
parse_step_uncounted(course, courses, skips, b) ==
    IF ~course.some
    THEN [all_courses |-> courses, skipped |-> skips, bar |-> b]
    ELSE [all_courses |-> Append(courses, course.v), skipped |-> skips,
          bar |-> update(b, 1)]

\* the body of the second pass for the value course of parse_course
parse_step(course, courses, skips, b) ==
    IF ~course.some
    THEN [all_courses |-> courses, skipped |-> skips + 1, bar |-> b]
    ELSE [all_courses |-> Append(courses, course.v), skipped |-> skips,
          bar |-> update(b, 1)]

Assign(step) ==
    /\ all_courses' = step.all_courses
    /\ skipped' = step.skipped
    /\ bar' = Some(step.bar)

Visit(next) ==
    Assign(parse_step(parse_course(next.course_div, next.url), all_courses, skipped, bar.v))

\* one iteration of the second pass, on the next block
ParseBlock ==
    /\ entry.fn = "main"
    /\ pc = "parse"
    /\ parsed < Len(blocks_of(pages))
    /\ Visit(blocks_of(pages)[parsed + 1])
    /\ parsed' = parsed + 1
    /\ UNCHANGED <<entry, called, ret, pc, pages, total_est, out_file, summary,
                   requested, raised>>

\* bar.finish()
Finish ==
    /\ entry.fn = "main"
    /\ pc = "parse"
    /\ parsed = Len(blocks_of(pages))
    /\ bar' = Some(update(bar.v, 0))
    /\ pc' = "write"
    /\ UNCHANGED <<entry, called, ret, pages, total_est, all_courses, skipped, parsed,
                   out_file, summary, requested, raised>>

\* json.dump(all_courses, f, ...)
WriteFile ==
    /\ entry.fn = "main"
    /\ pc = "write"
    /\ out_file' = Some(all_courses)
    /\ pc' = "summary"
    /\ UNCHANGED <<entry, called, ret, pages, total_est, bar, all_courses, skipped,
                   parsed, summary, requested, raised>>

\* the two lines of the summary
PrintSummary ==
    /\ entry.fn = "main"
    /\ pc = "summary"
    /\ summary' = Some([wrote |-> Len(all_courses), skipped |-> skipped])
    /\ pc' = "done"
    /\ UNCHANGED <<entry, called, ret, pages, total_est, bar, all_courses, skipped,
                   parsed, out_file, requested, raised>>

Next ==
    \/ CallFindLevelGroup
    \/ CallParseUnitsAndInstructors
    \/ CallExtractLabeledFields
    \/ CallExtractCourseHeader
    \/ CallExtractDescription
    \/ CallParseCourse
    \/ FetchPage
    \/ FetchRaises
    \/ StartSecondPass
    \/ ParseBlock
    \/ Finish
    \/ WriteFile
    \/ PrintSummary

Spec == Init /\ [][Next]_vars

(***************************************************************************)
(* What the claims speak of.                                               *)
(***************************************************************************)
\* the block the extractor was entered with
arg == entry.course_div

Filled(course) == course.subject # "" /\ course.number # "" /\ course.title # ""

\* the blocks of the pages whose header can be extracted
CourseBlocks == {b \in PageBlocks : extract_course_header(b).some}

\* the number of blocks of a list of blocks of the pages whose header can be
\* extracted
Extractables(bs) == Cardinality({i \in 1..Len(bs) : bs[i].course_div \in CourseBlocks})

SecondPass == {"parse", "write", "summary", "done"}

AfterParsing == {"write", "summary", "done"}

\* the place of a configured url in URLS
UrlIndex(url) == CHOOSE i \in 1..Len(URLS) : URLS[i] = url

\* C1: every record parse_course returns, every record main collects and every
\* record of the output file has a non-empty subject, number and title, and
\* parse_course returns no record exactly when no strategy finds a header.
C1_RecordsHaveHeader ==
    /\ called = "parse_course" =>
          /\ ret.some => Filled(ret.v)
          /\ ret.some <=> \/ header_from_id_title(arg).some
                          \/ header_from_bold(arg).some
                          \/ header_from_text(arg).some
    /\ \A i \in 1..Len(all_courses) : Filled(all_courses[i])
    /\ out_file.some => \A i \in 1..Len(out_file.v) : Filled(out_file.v[i])

\* a run of main has written a record whose header only strategy 3 finds,
\* and has skipped a block
C1_Witness ==
    /\ pc = "done"
    /\ summary.v.skipped >= 1
    /\ \E i \in 1..Len(out_file.v) : out_file.v[i].code = "CMPSC 16"

\* C2: in the second pass the records collected and the blocks skipped are the
\* extractable and the other blocks among those visited, and a completed run
\* has written N records and reports N written and M skipped.
C2_CountsMatch ==
    /\ pc \in SecondPass =>
          LET n == Extractables(SubSeq(blocks_of(pages), 1, parsed))
          IN  Len(all_courses) = n /\ skipped = parsed - n
    /\ pc = "done" =>
          LET N == Extractables(blocks_of(pages))
              M == Len(blocks_of(pages)) - N
          IN  /\ Len(out_file.v) = N
              /\ summary.v.wrote = N
              /\ summary.v.skipped = M

C2_Witness ==
    /\ pc = "done"
    /\ summary.v.wrote >= 1
    /\ summary.v.skipped >= 1
    /\ Len(out_file.v) = summary.v.wrote

\* C3: no url is requested twice; once a fetch has failed the run is over: main
\* does nothing more, the file is not written, nothing is summarised and the
\* failed url has been requested once.
C3_FetchFailureAborts ==
    /\ \A i \in 1..Len(URLS) : requested[i] <= 1
    /\ raised.some =>
          /\ pc = "raised"
          /\ out_file = Null
          /\ summary = Null
          /\ requested[UrlIndex(raised.v.url)] = 1
          /\ ~ENABLED Next

\* a fetch fails after a page with a course has been fetched
C3_Witness ==
    /\ raised.some
    /\ Len(pages) >= 1
    /\ total_est >= 1
    /\ out_file = Null

\* the records main has built from the page of URLS[i]
RecordsOf(i) == {k \in 1..Len(all_courses) : all_courses[k].source_url = URLS[i]}

\* C4 as claimed: when the fetch of a url has started, every record of the
\* page of the url before it has been built.
C4_ParsedBeforeNextFetch ==
    \A i \in 1..(Len(URLS) - 1) :
       requested[i + 1] > 0 =>
          /\ Len(pages) >= i
          /\ Cardinality(RecordsOf(i)) = count_headers(pages[i].html)

\* C4 amended: when the fetch of a url has started, the page of the url before
\* it has been fetched and stored and its blocks counted into the estimate;
\* no record is built before every url has been fetched, and the records are
\* built page by page in the order of the urls.
C4_TwoPasses ==
    /\ \A i \in 1..(Len(URLS) - 1) :
          requested[i + 1] > 0 => Len(pages) >= i /\ pages[i].url = URLS[i]
    /\ total_est = Extractables(blocks_of(pages))
    /\ (bar.some \/ all_courses # <<>>) =>
          /\ Len(pages) = Len(URLS)
          /\ \A i \in 1..Len(URLS) : requested[i] = 1
    /\ \A j, k \in 1..Len(all_courses) :
          j < k => UrlIndex(all_courses[j].source_url) <= UrlIndex(all_courses[k].source_url)

\* every url has been fetched, a page and a later page each hold a course,
\* and the records of both have been built
C4_Witness ==
    /\ pc = "done"
    /\ \E i, j \in 1..Len(URLS) : i < j /\ RecordsOf(i) # {} /\ RecordsOf(j) # {}

\* the instructor/units span of the block and its normalized text
UnitsSpan == select_one(arg.node, "span", "InstructorUnits")

UnitsText == norm_space(get_text(UnitsSpan.v))

\* the piece of t that starts after the place c and ends before the next
\* semicolon, trimmed
PieceAfter(t, c) ==
    strip(SubSeq(t, c + 1, Least({x \in Places(t, ";") \cup {Len(t) + 1} : x > c}) - 1))

\* the places after which a piece of t that is not empty starts
PieceStarts(t) == {c \in {0} \cup Places(t, ";") : PieceAfter(t, c) # ""}

\* the i-th of a set of numbers, in ascending order
Nth(S, i) == CHOOSE c \in S : Cardinality({d \in S : d < c}) = i - 1

\* the instructors the claim expects of the instructor text t
InstructorsExpected(t) ==
    IF lower(t) = "staff" THEN <<"STAFF">>
    ELSE [i \in 1..Cardinality(PieceStarts(t)) |-> PieceAfter(t, Nth(PieceStarts(t), i))]

\* what the claim expects of a text whose group closes at the place close
WithUnits(t, close) ==
    [units |-> Some(strip(SubSeq(t, 2, close - 1))),
     instructors |-> InstructorsExpected(strip(SubSeq(t, close + 1, Len(t))))]

WithoutUnits(t) == [units |-> Null, instructors |-> InstructorsExpected(t)]

\* t begins with "(" and the group is closed
BeginsWithGroup(t) == t # "" /\ Head(t) = "(" /\ Places(t, ")") # {}

\* C5 as claimed: a text that begins with a parenthesized group, whatever is
\* in the group, gives the group as the units and the rest as instructor text.
C5_AnyGroupIsUnits ==
    called = "parse_units_and_instructors" =>
       IF ~UnitsSpan.some THEN ret = [units |-> Null, instructors |-> <<>>]
       ELSE IF BeginsWithGroup(UnitsText)
            THEN ret = WithUnits(UnitsText, Least(Places(UnitsText, ")")))
            ELSE ret = WithoutUnits(UnitsText)

\* C5 amended: a text that begins with a parenthesized group that is not empty
\* gives the trimmed content of the group as the units and the rest as
\* instructor text, any other text has no units and is instructor text as a
\* whole; instructor text equal to STAFF in any case gives <<"STAFF">>, any
\* other gives its pieces between semicolons, trimmed, the empty ones dropped,
\* in order; a block without the span gives no units and no instructors.
C5_UnitsAndInstructors ==
    called = "parse_units_and_instructors" =>
       IF ~UnitsSpan.some THEN ret = [units |-> Null, instructors |-> <<>>]
       ELSE IF BeginsWithGroup(UnitsText) /\ Least(Places(UnitsText, ")")) > 2
            THEN ret = WithUnits(UnitsText, Least(Places(UnitsText, ")")))
            ELSE ret = WithoutUnits(UnitsText)

\* the second example of the specification
C5_Witness ==
    /\ called = "parse_units_and_instructors"
    /\ UnitsSpan.some
    /\ UnitsText = "(4-8) Smith, J.; Lee, K."
    /\ ret = [units |-> Some("4-8"), instructors |-> <<"Smith, J.", "Lee, K.">>]

HasLabel(txt) == Contains(txt, "Prerequisite:") \/ Contains(txt, "Recommended Preparation:")

\* the normalized texts of the <div>s below the block
DivTexts(course_div) ==
    {norm_space(get_text(descendants(course_div.node)[i])) :
        i \in {j \in 1..Len(descendants(course_div.node)) :
                  descendants(course_div.node)[j].tag = "div"}}

\* C6: the description extract_description returns, and the description of
\* the record parse_course returns, holds neither label: it is empty or the
\* normalized text of a <div> below the block that holds neither label.
C6_DescriptionWithoutLabels ==
    /\ called = "extract_description" =>
          /\ ~HasLabel(ret)
          /\ ret = "" \/ ret \in {t \in DivTexts(arg) : ~HasLabel(t)}
    /\ (called = "parse_course" /\ ret.some) =>
          /\ ~HasLabel(ret.v.description)
          /\ ret.v.description = ""
                \/ ret.v.description \in {t \in DivTexts(arg) : ~HasLabel(t)}

\* a description was returned although a longer <div> with a label is there
C6_Witness ==
    /\ called = "extract_description"
    /\ ret # ""
    /\ \E t \in DivTexts(arg) : HasLabel(t) /\ Len(t) > Len(ret)

\* the course-id-and-title element of the block
IdTitle == select_one(arg.node, "span", "CourseIdAndTitle")

\* C7: extract_course_header returns what the first strategy that succeeds
\* gives, the strategies taken in the order id-and-title element, first <b>,
\* text of the block, and absence only when all three fail; an id-and-title
\* element whose text parses decides the result, and the header text
\* "XYZ 100. Intro to Things" gives XYZ, 100 and Intro to Things.
C7_FirstStrategyWins ==
    called = "extract_course_header" =>
       LET first  == header_from_id_title(arg)
           second == header_from_bold(arg)
           third  == header_from_text(arg)
           m      == COURSE_HEADER_RE(norm_space(get_text(IdTitle.v)))
       IN  /\ first.some => ret = first
           /\ (~first.some /\ second.some) => ret = second
           /\ (~first.some /\ ~second.some) => ret = third
           /\ ~ret.some <=> (~first.some /\ ~second.some /\ ~third.some)
           /\ (IdTitle.some /\ m.ok) => ret = Some(<<m.g1, m.g2, norm_space(m.g3)>>)
           /\ (IdTitle.some /\ norm_space(get_text(IdTitle.v)) = "XYZ 100. Intro to Things") =>
                 ret = Some(<<"XYZ", "100", "Intro to Things">>)

\* the id-and-title element and the first <b> both parse, to different headers
C7_Witness ==
    /\ called = "extract_course_header"
    /\ header_from_id_title(arg).some
    /\ header_from_bold(arg).some
    /\ header_from_bold(arg) # header_from_id_title(arg)
    /\ ret = header_from_id_title(arg)

\* the canonical field of a wanted label
FieldOf(label) ==
    CASE label \in {"prerequisite", "prerequisites"} -> "prerequisites_raw"
      [] label = "recommended preparation" -> "recommended_preparation_raw"
      [] label = "enrollment comments" -> "enrollment_comments_raw"
      [] label = "repeat comments" -> "repeat_comments_raw"
      [] label \in {"cross-listed", "crosslisted"} -> "cross_listed_raw"

WantedLabels ==
    {"prerequisite", "prerequisites", "recommended preparation", "enrollment comments",
     "repeat comments", "cross-listed", "crosslisted"}

\* the text of a node that follows a label
TextOf(n) == IF IsTag(n) THEN get_text(n) ELSE n.text

\* the siblings up to the first <strong> or <br>
UpToStop(sibs) ==
    SubSeq(sibs, 1, Least({i \in 1..Len(sibs) : sibs[i].tag \in {"strong", "br"}}
                          \cup {Len(sibs) + 1}) - 1)

\* the value collected after a label: the texts of the siblings up to the
\* stop, joined and normalized
Collected(sibs) ==
    norm_space(join([i \in 1..Len(UpToStop(sibs)) |-> TextOf(UpToStop(sibs)[i])], " "))

\* the label elements of the block, in document order
Labels == sites(arg.node.kids)

\* the label of each label element and the value collected after it
LabelTexts(labels) == [i \in 1..Len(labels) |-> label_of(labels[i].el)]

Values(labels) == [i \in 1..Len(labels) |-> Collected(labels[i].next_siblings)]

\* the places of the wanted labels of the field f among the labels
LabelsOf(labels, f) ==
    {i \in 1..Len(labels) : labels[i] \in WantedLabels /\ FieldOf(labels[i]) = f}

\* those of them after which a value that is not empty was collected
ValuedLabelsOf(labels, values, f) == {i \in LabelsOf(labels, f) : values[i] # ""}

\* C8 as claimed: the field of every wanted label element holds the value
\* collected after that element, and is absent when the value is empty or the
\* field has no label element.
C8_EveryLabelStored ==
    called = "extract_labeled_fields" =>
       LET labels == LabelTexts(Labels)
           values == Values(Labels)
       IN  \A f \in LabeledFields :
              /\ \A i \in LabelsOf(labels, f) :
                    ret[f] = IF values[i] # "" THEN Some(values[i]) ELSE Null
              /\ LabelsOf(labels, f) = {} => ret[f] = Null

\* C8 amended: a field holds the value collected after the last of its label
\* elements whose value is not empty (the texts of the siblings that follow
\* the label up to the next <strong> or <br>, joined and normalized); both
\* spellings of a label write the same field; a field without such a label
\* element is absent.
C8_LastValuedLabelStored ==
    called = "extract_labeled_fields" =>
       LET labels == LabelTexts(Labels)
           values == Values(Labels)
       IN  /\ DOMAIN ret = LabeledFields
           /\ \A f \in LabeledFields :
                 IF ValuedLabelsOf(labels, values, f) = {} THEN ret[f] = Null
                 ELSE ret[f] = Some(values[Greatest(ValuedLabelsOf(labels, values, f))])

\* a field has two label elements, in both spellings, with different values
C8_Witness ==
    /\ called = "extract_labeled_fields"
    /\ LET labels == LabelTexts(Labels)
           values == Values(Labels)
       IN  \E i, j \in ValuedLabelsOf(labels, values, "prerequisites_raw") :
              /\ i < j
              /\ labels[i] # labels[j]
              /\ values[i] # values[j]
              /\ ret["prerequisites_raw"] = Some(values[j])

Markers ==
    {"rptrlowerdivisioncourses", "rptrupperdivisioncourses", "rptrgraduatedivisioncourses"}

GroupOf(marker) ==
    CASE marker = "rptrlowerdivisioncourses" -> "Lower Division"
      [] marker = "rptrupperdivisioncourses" -> "Upper Division"
      [] marker = "rptrgraduatedivisioncourses" -> "Graduate Division"

\* the groups whose marker the id of an ancestor holds, in any case
GroupsOf(id) == {GroupOf(m) : m \in {k \in Markers : id.some /\ Contains(lower(id.v), k)}}

\* the places of the ancestors that carry a marker, the nearest first
Marked == {i \in 1..Len(arg.parents) : GroupsOf(arg.parents[i]) # {}}

\* C9: find_level_group returns absence exactly when no ancestor carries a
\* marker, and otherwise a group of the nearest ancestor that carries one.
C9_InnermostMarkerWins ==
    called = "find_level_group" =>
       IF Marked = {} THEN ret = Null
       ELSE ret.some /\ ret.v \in GroupsOf(arg.parents[Least(Marked)])

\* two ancestors carry markers of different groups
C9_Witness ==
    /\ called = "find_level_group"
    /\ \E i, j \in Marked :
          /\ i < j
          /\ GroupsOf(arg.parents[i]) \cap GroupsOf(arg.parents[j]) = {}
    /\ ret.some
    /\ GroupsOf(arg.parents[Least(Marked)]) = {ret.v}

\* C10: in the second pass the counter of the bar is the number of records
\* collected and is at most the total, which is the estimate or 1 when the
\* estimate is 0; when parsing has finished the counter is the estimate and
\* the number of records written.
C10_CounterIsRecords ==
    /\ bar.some =>
          /\ bar.v.current = Len(all_courses)
          /\ bar.v.current <= bar.v.total
          /\ bar.v.total = (IF total_est = 0 THEN 1 ELSE total_est)
    /\ pc \in AfterParsing =>
          /\ bar.v.current = total_est
          /\ total_est = 0 => bar.v.total = 1 /\ bar.v.current = 0
    /\ out_file.some => Len(out_file.v) = bar.v.current

\* a run has written one record and skipped a block
C10_Witness ==
    /\ pc = "done"
    /\ skipped = 1
    /\ bar.v.current = 1
    /\ bar.v.total = 1
    /\ Len(out_file.v) = 1

=============================================================================
